---- MODULE Spec2Model ----
(***************************************************************************)
(* Model of game.py: a non-transitive dice game whose random outcomes are  *)
(* produced by a commit / reveal protocol (HMAC commitment, then the       *)
(* counterpart's number, then the reveal).                                 *)
(*                                                                         *)
(* Text is a sequence of one-character strings.  Python's None is the      *)
(* empty sequence and a value v held by a name that may be None is <<v>>.  *)
(* Die indices are 0-based as in the program; dice_list[i] of the program  *)
(* is dice_list[i + 1] here.                                               *)
(***************************************************************************)
EXTENDS Integers, Sequences, FiniteSets, TLC

\* ------------------------------------------------------------------ bounds

\* Longest line of text the human types at a prompt.
MaxInputLen == 2

\* Number of distinct keys secrets.token_bytes may return (keys are 0..NumKeys-1).
NumKeys == 2

\* Number of times the selection menu is shown again after a rejected entry.
MaxRetries == 2

\* Dice built directly (not through the command line): the largest face count,
\* and the largest magnitude of an argument handed to roll().
MaxFaces == 3

MaxIndex == 7

\* Largest number of dice of a game constructed directly.
MaxDice == 3

\* Characters the human may type.
InputChars == {"0", "1", "2", "-", " ", "x", "X", "?"}

Inputs == UNION {[1..n -> InputChars] : n \in 0..MaxInputLen}

Keys == 0..(NumKeys - 1)

\* Command lines (sys.argv[1:]) the program is started with.
ValidArgv ==
    { << <<"2", ",", "4">>, <<"1", ",", "4">>, <<"3", ",", "3">> >>,
      << <<"1", ",", "5", ",", "9">>, <<"2", ",", "6", ",", "7">>,
         <<"3", ",", "4", ",", "8">> >>,
      << <<"-", "1">>, <<"0">>, <<"5">>, <<"5">> >>,
      << <<"2", ",", "2", ",", "4", ",", "4", ",", "9", ",", "9">>,
         <<"1", ",", "1", ",", "6", ",", "6", ",", "8", ",", "8">>,
         <<"3", ",", "3", ",", "5", ",", "5", ",", "7", ",", "7">> >> }

InvalidArgv ==
    { << <<"1", ",", "2">>, <<"3", ",", "4">> >>,
      << <<"1", ",", "2">>, <<"3">>, <<"4", ",", "5">> >>,
      << <<"1", ",", "x">>, <<"2", ",", "3">>, <<"3", ",", "4">> >>,
      << <<"1", ",", ",", "2">>, <<"2", ",", "3">>, <<"3", ",", "4">> >>,
      << <<>>, <<"2">>, <<"3">> >> }

Argvs == ValidArgv \cup InvalidArgv

\* ------------------------------------------------------------ Python values

None == << >>

Some(v) == <<v>>

Val(o) == o[1]

DigitChars == <<"0", "1", "2", "3", "4", "5", "6", "7", "8", "9">>

IsDigit(c) == \E d \in 1..10 : DigitChars[d] = c

DigitVal(c) == (CHOOSE d \in 1..10 : DigitChars[d] = c) - 1

IsSpace(c) == c = " "

RECURSIVE LStrip(_)
LStrip(s) == IF s # << >> /\ IsSpace(Head(s)) THEN LStrip(Tail(s)) ELSE s

RECURSIVE RStrip(_)
RStrip(s) ==
    IF s # << >> /\ IsSpace(s[Len(s)]) THEN RStrip(SubSeq(s, 1, Len(s) - 1)) ELSE s

\* str.strip()
Strip(s) == RStrip(LStrip(s))

\* str.lower()
Lower(s) == [i \in DOMAIN s |-> IF s[i] = "X" THEN "x" ELSE s[i]]

RECURSIVE DigitsValue(_)
DigitsValue(s) ==
    IF s = << >> THEN 0
    ELSE 10 * DigitsValue(SubSeq(s, 1, Len(s) - 1)) + DigitVal(s[Len(s)])

\* int(text): [ok |-> FALSE] stands for ValueError.
PyInt(s) ==
    LET t == Strip(s)
        signed == t # << >> /\ t[1] \in {"-", "+"}
        body == IF signed THEN Tail(t) ELSE t
        ok == body # << >> /\ \A i \in DOMAIN body : IsDigit(body[i])
        mag == IF ok THEN DigitsValue(body) ELSE 0
    IN  [ok |-> ok, val |-> IF signed /\ t[1] = "-" THEN 0 - mag ELSE mag]

\* str(n) for an integer n
RECURSIVE PyStr(_)
PyStr(n) ==
    IF n < 0 THEN <<"-">> \o PyStr(0 - n)
    ELSE IF n < 10 THEN <<DigitChars[n + 1]>>
    ELSE PyStr(n \div 10) \o <<DigitChars[(n % 10) + 1]>>

\* text.split(",")
RECURSIVE Split(_)
Split(s) ==
    IF \A i \in DOMAIN s : s[i] # "," THEN <<s>>
    ELSE LET k == CHOOSE i \in DOMAIN s :
                      s[i] = "," /\ \A j \in 1..(i - 1) : s[j] # ","
         IN  <<SubSeq(s, 1, k - 1)>> \o Split(SubSeq(s, k + 1, Len(s)))

\* text.encode(): the bytes of ASCII text
Ord(c) == IF IsDigit(c) THEN 48 + DigitVal(c) ELSE IF c = "-" THEN 45 ELSE 63

Encode(s) == [i \in DOMAIN s |-> Ord(s[i])]

\* ------------------------------------------------------- pure program parts

\* roll() folding a negative argument onto its magnitude.
roll_Magnitude(faces, value) ==
    faces[((IF value < 0 THEN 0 - value ELSE value) % Len(faces)) + 1]

\* Dice.roll
roll(faces, value) == faces[(value % Len(faces)) + 1]

\* One command-line argument: list(map(int, arg.split(","))).
ArgFaces(arg) ==
    LET parts == Split(arg)
    IN  [ok |-> \A i \in DOMAIN parts : PyInt(parts[i]).ok,
         faces |-> [i \in DOMAIN parts |-> PyInt(parts[i]).val]]

\* parse() without the comparison of the face counts.
parse_AnyFaceCounts(arguments) ==
    LET parsed == [i \in DOMAIN arguments |-> ArgFaces(arguments[i])]
        bad == {i \in DOMAIN arguments : ~parsed[i].ok \/ Len(parsed[i].faces) < 1}
    IN  IF bad # {} THEN [error |-> Some("invalid_configuration"), dice_list |-> << >>]
        ELSE [error |-> None,
              dice_list |-> [i \in DOMAIN arguments |-> parsed[i].faces]]

\* DiceParser.parse: error is None on success, else the ValueError raised.
parse(arguments) ==
    LET parsed == [i \in DOMAIN arguments |-> ArgFaces(arguments[i])]
        bad == {i \in DOMAIN arguments : ~parsed[i].ok \/ Len(parsed[i].faces) < 1}
        num_faces_set == {Len(parsed[i].faces) : i \in DOMAIN arguments}
    IN  IF bad # {} THEN [error |-> Some("invalid_configuration"), dice_list |-> << >>]
        ELSE IF Cardinality(num_faces_set) # 1
        THEN [error |-> Some("same_number_of_sides"), dice_list |-> << >>]
        ELSE [error |-> None,
              dice_list |-> [i \in DOMAIN arguments |-> parsed[i].faces]]

\* RandomGenerator.generate_key: the values secrets.token_bytes may return.
generate_key == Keys

\* RandomGenerator.generate_random_number: the values randbelow(max_value + 1)
\* may return.
generate_random_number(max_value) == 0..max_value

\* calculate_hmac with the message never fed to the HMAC.
calculate_hmac_NoMessage(k, message) == [hmac_key |-> k, hmac_msg |-> << >>]

\* HMACGenerator.calculate_hmac: HMAC-SHA3-256 as a collision-free function,
\* the digest being the term built from the key and the encoded message.
calculate_hmac(k, message) == [hmac_key |-> k, hmac_msg |-> Encode(message)]

\* The result with the numbers multiplied instead of added.
Combine_Product(user_n, random_n, max_v) == (user_n * random_n) % (max_v + 1)

\* The result with the parentheses around the sum left out.
Combine_Precedence(user_n, random_n, max_v) == user_n + (random_n % (max_v + 1))

\* fair_random_selection: result = (user_number + random_number) % (max_value + 1)
Combine(user_n, random_n, max_v) == (user_n + random_n) % (max_v + 1)

\* The count with a tie taken as a win of the first die.
WinCount_TiesWin(faces1, faces2) ==
    Cardinality({p \in (DOMAIN faces1) \X (DOMAIN faces2) :
                    faces1[p[1]] >= faces2[p[2]]})

\* ProbabilityCalculator.calculate_probabilities: an entry <<n, d>> is n / d.
WinCount(faces1, faces2) ==
    Cardinality({p \in (DOMAIN faces1) \X (DOMAIN faces2) :
                    faces1[p[1]] > faces2[p[2]]})

calculate_probabilities(dl) ==
    [i \in DOMAIN dl |->
        [j \in DOMAIN dl |->
            IF i # j THEN <<WinCount(dl[i], dl[j]), Len(dl[i]) * Len(dl[j])>>
            ELSE <<0, 1>>]]

\* ------------------------------------------------------------------- state

VARIABLES
    argv,            \* sys.argv[1:]
    pc,              \* position in __main__ / DiceGame.play
    exit_code,       \* None while running, else the process's exit status
    dice_list,       \* DiceGame.dice_list: the face lists
    used_dice,       \* DiceGame.used_dice
    first_move,      \* play: first_move
    user_first,      \* play: user_first
    user_dice,       \* play: user_dice, as the die's index
    computer_dice,   \* play: computer_dice, as the die's index
    computer_throw, computer_value, user_throw, user_value,
    outcome,         \* play: the announced outcome
    reprompts,       \* get_user_choice: completed iterations of its loop
    probabilities,   \* get_user_choice: the table last displayed
    frs,             \* position in fair_random_selection: idle, input, return
    max_value, key, random_number, hmac_value, user_number, result,
    transcript       \* the lines the current fair_random_selection call has printed

gameVars == <<dice_list, used_dice, first_move, user_first, user_dice,
              computer_dice, computer_throw, computer_value, user_throw,
              user_value, outcome, reprompts, probabilities>>

roundVars == <<frs, max_value, key, random_number, hmac_value, user_number,
               result, transcript>>

vars == <<argv, pc, exit_code, gameVars, roundVars>>

Init ==
    /\ argv \in Argvs
    /\ pc = "main"
    /\ exit_code = None
    /\ dice_list = << >>
    /\ used_dice = {}
    /\ first_move = None
    /\ user_first = None
    /\ user_dice = None
    /\ computer_dice = None
    /\ computer_throw = None
    /\ computer_value = None
    /\ user_throw = None
    /\ user_value = None
    /\ outcome = None
    /\ reprompts = 0
    /\ probabilities = None
    /\ frs = "idle"
    /\ max_value = None
    /\ key = None
    /\ random_number = None
    /\ hmac_value = None
    /\ user_number = None
    /\ result = None
    /\ transcript = << >>

\* ----------------------------------------------------------------- actions

Exit(status) ==
    /\ pc' = "exit"
    /\ exit_code' = Some(status)

\* __main__: the argument count, DiceParser.parse, DiceGame(dice_list) and the
\* entry of play().
Main ==
    /\ pc = "main"
    /\ IF Len(argv) < 3
       THEN Exit(1) /\ UNCHANGED <<dice_list, used_dice>>
       ELSE LET parsed == parse(argv)
            IN  IF parsed.error # None
                THEN Exit(1) /\ UNCHANGED <<dice_list, used_dice>>
                ELSE /\ dice_list' = parsed.dice_list
                     /\ used_dice' = {}
                     /\ pc' = "first_move"
                     /\ UNCHANGED exit_code
    /\ UNCHANGED <<argv, first_move, user_first, user_dice, computer_dice,
                   computer_throw, computer_value, user_throw, user_value,
                   outcome, reprompts, probabilities, roundVars>>

InProtocolStage == pc \in {"first_move", "computer_throw", "user_throw"}

\* The argument play() passes for the first move.
FirstMoveMax == 1

\* The argument without the "- 1".
ThrowMax_OffByOne(faces) == Len(faces)

\* The argument play() passes for a throw with the die whose faces are given.
ThrowMax(faces) == Len(faces) - 1

\* The die (index) whose throw the current stage is.
StageDice == IF pc = "computer_throw" THEN computer_dice ELSE user_dice

\* The argument of the fair_random_selection call of the current stage.
StageMax ==
    IF pc = "first_move" THEN FirstMoveMax
    ELSE ThrowMax(dice_list[Val(StageDice) + 1])

\* fair_random_selection: the commitment line and the prompt of input().
CommitLines(max_v, digest) ==
    << [kind |-> "commit", max_value |-> max_v, hmac |-> digest],
       [kind |-> "request", modulus |-> max_v + 1] >>

\* The two lines with the result printed before the reveal.
RevealLines_ResultFirst(user_n, random_n, k, res, max_v) ==
    << [kind |-> "result", user_number |-> user_n, random_number |-> random_n,
        result |-> res, modulus |-> max_v + 1],
       [kind |-> "reveal", number |-> random_n, key |-> k] >>

\* fair_random_selection: the reveal line and the result line.
RevealLines(user_n, random_n, k, res, max_v) ==
    << [kind |-> "reveal", number |-> random_n, key |-> k],
       [kind |-> "result", user_number |-> user_n, random_number |-> random_n,
        result |-> res, modulus |-> max_v + 1] >>

\* fair_random_selection up to its input(): key, number, HMAC, the commitment
\* line and the prompt.  A throw with no die (None.faces) ends the process with
\* an uncaught AttributeError.
FairCommit ==
    /\ InProtocolStage
    /\ frs = "idle"
    /\ IF pc # "first_move" /\ StageDice = None
       THEN /\ Exit(1)
            /\ UNCHANGED roundVars
       ELSE \E k \in generate_key :
            \E n \in generate_random_number(StageMax) :
               /\ max_value' = Some(StageMax)
               /\ key' = Some(k)
               /\ random_number' = Some(n)
               /\ hmac_value' = Some(calculate_hmac(k, PyStr(n)))
               /\ user_number' = None
               /\ result' = None
               /\ transcript' = CommitLines(StageMax, calculate_hmac(k, PyStr(n)))
               /\ frs' = "input"
               /\ UNCHANGED <<pc, exit_code>>
    /\ UNCHANGED <<argv, gameVars>>

\* fair_random_selection from its input() to its return statement, answer
\* being int(user_input) of an integer: the result, the reveal line and the
\* result line.
FairReveal(answer) ==
    /\ InProtocolStage
    /\ frs = "input"
    /\ answer.ok
    /\ LET user_n == answer.val
           res == Combine(user_n, Val(random_number), Val(max_value))
       IN  /\ user_number' = Some(user_n)
           /\ result' = Some(res)
           /\ transcript' = transcript \o
                 RevealLines(user_n, Val(random_number), Val(key), res,
                             Val(max_value))
    /\ frs' = "return"
    /\ UNCHANGED <<argv, pc, exit_code, gameVars, max_value, key,
                   random_number, hmac_value>>

\* The handler with the ValueError answered by the number 0 and the round
\* going on to its return.
FairAbort_Default(answer) ==
    /\ InProtocolStage
    /\ frs = "input"
    /\ ~answer.ok
    /\ LET res == Combine(0, Val(random_number), Val(max_value))
       IN  /\ user_number' = Some(0)
           /\ result' = Some(res)
           /\ transcript' = Append(transcript, [kind |-> "invalid"]) \o
                 RevealLines(0, Val(random_number), Val(key), res,
                             Val(max_value))
    /\ frs' = "return"
    /\ UNCHANGED <<argv, pc, exit_code, gameVars, max_value, key,
                   random_number, hmac_value>>

\* The handler printing its message and the round reading a line again.
FairAbort_AskAgain(answer) ==
    /\ InProtocolStage
    /\ frs = "input"
    /\ ~answer.ok
    /\ Len(transcript) < 3
    /\ transcript' = Append(transcript, [kind |-> "invalid"])
    /\ UNCHANGED <<argv, pc, exit_code, gameVars, frs, max_value, key,
                   random_number, hmac_value, user_number, result>>

\* fair_random_selection from its input() on, int(user_input) raising
\* ValueError.
FairAbort(answer) ==
    /\ InProtocolStage
    /\ frs = "input"
    /\ ~answer.ok
    /\ transcript' = Append(transcript, [kind |-> "invalid"])
    /\ Exit(1)
    /\ UNCHANGED <<argv, gameVars, frs, max_value, key, random_number,
                   hmac_value, user_number, result>>

\* The test with the two outcomes exchanged.
UserFirst_Inverted(res) == res = 1

\* play(): user_first = first_move == 0
UserFirst(res) == res = 0

\* play() once fair_random_selection has returned res.
Return(res) ==
    CASE pc = "first_move" ->
            /\ first_move' = Some(res)
            /\ user_first' = Some(UserFirst(res))
            /\ pc' = "select_first"
            /\ UNCHANGED <<computer_throw, computer_value, user_throw, user_value>>
      [] pc = "computer_throw" ->
            /\ computer_throw' = Some(res)
            /\ computer_value' = Some(roll(dice_list[Val(computer_dice) + 1], res))
            /\ pc' = "user_throw"
            /\ UNCHANGED <<first_move, user_first, user_throw, user_value>>
      [] pc = "user_throw" ->
            /\ user_throw' = Some(res)
            /\ user_value' = Some(roll(dice_list[Val(user_dice) + 1], res))
            /\ pc' = "compare"
            /\ UNCHANGED <<first_move, user_first, computer_throw, computer_value>>

\* The return of fair_random_selection: its frame is gone and play() goes on
\* with the result.
FairReturn ==
    /\ InProtocolStage
    /\ frs = "return"
    /\ Return(Val(result))
    /\ frs' = "idle"
    /\ max_value' = None
    /\ key' = None
    /\ random_number' = None
    /\ hmac_value' = None
    /\ user_number' = None
    /\ result' = None
    /\ transcript' = << >>
    /\ UNCHANGED <<argv, exit_code, dice_list, used_dice, user_dice,
                   computer_dice, outcome, reprompts, probabilities>>

InSelection == pc \in {"select_first", "select_second"}

\* play(): whose call the current selection step is.
UserTurn ==
    \/ pc = "select_first" /\ Val(user_first)
    \/ pc = "select_second" /\ ~Val(user_first)

\* play() with the human's throw taken first.
AfterSelection_UserThrowFirst ==
    IF pc = "select_first" THEN "select_second" ELSE "user_throw"

\* play() with the second selection left out.
AfterSelection_SkipSecond == "computer_throw"

\* play() after a party's selection returned.
AfterSelection == IF pc = "select_first" THEN "select_second" ELSE "computer_throw"

\* get_user_choice: the text as compared and parsed.
Entered(s) == Lower(Strip(s))

\* get_user_choice: what its tests make of the text: choice == "x",
\* choice == "?" and int(choice).
Choice(s) ==
    [exit |-> Entered(s) = <<"x">>,
     help |-> Entered(s) = <<"?">>,
     int |-> PyInt(Entered(s))]

\* The test without "choice in self.used_dice".
InvalidChoice_NoUsedCheck(n) == n < 0 \/ n >= Len(dice_list)

\* The test without "choice < 0".
InvalidChoice_NoNegativeCheck(n) == n \in used_dice \/ n >= Len(dice_list)

\* get_user_choice: the test that raises ValueError("Invalid choice.").
InvalidChoice(n) == n \in used_dice \/ n < 0 \/ n >= Len(dice_list)

\* get_user_choice: the entry is rejected (not an integer, or an invalid choice).
Rejected(choice) == ~choice.int.ok \/ InvalidChoice(choice.int.val)

\* The exit option ending the process as a failure.
UserExit_Failure(choice) ==
    /\ InSelection /\ UserTurn
    /\ choice.exit
    /\ Exit(1)
    /\ UNCHANGED <<argv, gameVars, roundVars>>

\* get_user_choice, "x": sys.exit(0).
UserExit(choice) ==
    /\ InSelection /\ UserTurn
    /\ choice.exit
    /\ Exit(0)
    /\ UNCHANGED <<argv, gameVars, roundVars>>

\* get_user_choice, "?": the probability table, then the menu again.
UserHelp(choice) ==
    /\ InSelection /\ UserTurn
    /\ ~choice.exit /\ choice.help
    /\ reprompts < MaxRetries
    /\ probabilities' = Some(calculate_probabilities(dice_list))
    /\ reprompts' = reprompts + 1
    /\ UNCHANGED <<argv, pc, exit_code, dice_list, used_dice, first_move,
                   user_first, user_dice, computer_dice, computer_throw,
                   computer_value, user_throw, user_value, outcome, roundVars>>

\* get_user_choice, any other rejected entry: "Invalid input. Try again.",
\* then the menu again.
UserRejected(choice) ==
    /\ InSelection /\ UserTurn
    /\ ~choice.exit /\ ~choice.help
    /\ Rejected(choice)
    /\ reprompts < MaxRetries
    /\ reprompts' = reprompts + 1
    /\ UNCHANGED <<argv, pc, exit_code, dice_list, used_dice, first_move,
                   user_first, user_dice, computer_dice, computer_throw,
                   computer_value, user_throw, user_value, outcome,
                   probabilities, roundVars>>

\* get_user_choice, an accepted index: the die is claimed and returned.
UserSelect(choice) ==
    /\ InSelection /\ UserTurn
    /\ ~choice.exit /\ ~choice.help
    /\ ~Rejected(choice)
    /\ used_dice' = used_dice \cup {choice.int.val}
    /\ user_dice' = Some(choice.int.val)
    /\ pc' = AfterSelection
    /\ UNCHANGED <<argv, exit_code, dice_list, first_move, user_first,
                   computer_dice, computer_throw, computer_value, user_throw,
                   user_value, outcome, reprompts, probabilities, roundVars>>

\* The loop run from the last die down.
ComputerPick_Highest(used, n) ==
    LET free == {i \in 0..(n - 1) : i \notin used}
    IN  IF free = {} THEN None
        ELSE Some(CHOOSE i \in free : \A j \in free : i >= j)

\* The loop leaving after its first iteration.
ComputerPick_FirstOnly(used, n) == IF 0 \in used \/ n < 1 THEN None ELSE Some(0)

\* get_computer_choice: the index it claims, None when the loop ends without
\* a return.
ComputerPick(used, n) ==
    LET free == {i \in 0..(n - 1) : i \notin used}
    IN  IF free = {} THEN None
        ELSE Some(CHOOSE i \in free : \A j \in free : i <= j)

get_computer_choice ==
    /\ InSelection /\ ~UserTurn
    /\ LET pick == ComputerPick(used_dice, Len(dice_list))
       IN  /\ used_dice' = IF pick = None THEN used_dice
                           ELSE used_dice \cup {Val(pick)}
           /\ computer_dice' = pick
    /\ pc' = AfterSelection
    /\ UNCHANGED <<argv, exit_code, dice_list, first_move, user_first,
                   user_dice, computer_throw, computer_value, user_throw,
                   user_value, outcome, reprompts, probabilities, roundVars>>

\* The comparison with ">=" for ">".
Outcome_TieToUser(user_v, computer_v) ==
    IF user_v >= computer_v THEN "You win!"
    ELSE IF user_v < computer_v THEN "I win!"
    ELSE "It's a tie!"

\* play(): the comparison of the two throws.
Outcome(user_v, computer_v) ==
    IF user_v > computer_v THEN "You win!"
    ELSE IF user_v < computer_v THEN "I win!"
    ELSE "It's a tie!"

\* play(): the announcement; the process then ends normally.
Compare ==
    /\ pc = "compare"
    /\ outcome' = Some(Outcome(Val(user_value), Val(computer_value)))
    /\ Exit(0)
    /\ UNCHANGED <<argv, dice_list, used_dice, first_move, user_first,
                   user_dice, computer_dice, computer_throw, computer_value,
                   user_throw, user_value, reprompts, probabilities, roundVars>>

\* int(user_input) for every line the human may type at a round's prompt.
ProtocolAnswers == {PyInt(s) : s \in Inputs}

\* The entries the human may make at the selection menu.
MenuChoices == {Choice(s) : s \in Inputs}

Next ==
    \/ Main
    \/ FairCommit
    \/ \E answer \in ProtocolAnswers : FairReveal(answer)
    \/ \E answer \in ProtocolAnswers : FairAbort(answer)
    \/ FairReturn
    \/ \E choice \in MenuChoices : UserExit(choice)
    \/ \E choice \in MenuChoices : UserHelp(choice)
    \/ \E choice \in MenuChoices : UserRejected(choice)
    \/ \E choice \in MenuChoices : UserSelect(choice)
    \/ get_computer_choice
    \/ Compare

Spec == Init /\ [][Next]_vars

\* ------------------------------------------------- Dice, used on its own

\* Face values of dice built directly.
FaceValues == {1, 2}

\* Dice(faces) for the lists of at least one face.
DiceFaces == UNION {[1..n -> FaceValues] : n \in 1..MaxFaces}

\* Arguments of roll(): negative, in range, at and above the face count.
RollArgs == (0 - MaxIndex)..MaxIndex

\* No game state yet.
NoGame ==
    /\ exit_code = None
    /\ used_dice = {}
    /\ first_move = None
    /\ user_first = None
    /\ user_dice = None
    /\ computer_dice = None
    /\ computer_throw = None
    /\ computer_value = None
    /\ user_throw = None
    /\ user_value = None
    /\ outcome = None
    /\ reprompts = 0
    /\ probabilities = None
    /\ frs = "idle"
    /\ max_value = None
    /\ key = None
    /\ random_number = None
    /\ hmac_value = None
    /\ user_number = None
    /\ result = None
    /\ transcript = << >>

\* die = Dice(faces)
InitRoll ==
    /\ argv = << >>
    /\ pc = "roll"
    /\ dice_list \in {<<faces>> : faces \in DiceFaces}
    /\ NoGame

\* die.roll(value): the argument is kept in computer_throw and the returned
\* face in computer_value.
Roll(value) ==
    /\ pc = "roll"
    /\ pc' = "rolled"
    /\ computer_dice' = Some(0)
    /\ computer_throw' = Some(value)
    /\ computer_value' = Some(roll(dice_list[1], value))
    /\ UNCHANGED <<argv, exit_code, dice_list, used_dice, first_move, user_first,
                   user_dice, user_throw, user_value, outcome, reprompts,
                   probabilities, roundVars>>

NextRoll == \E value \in RollArgs : Roll(value)

SpecRoll == InitRoll /\ [][NextRoll]_vars

\* ------------------------------------- DiceGame, constructed directly

\* The dice lists DiceGame is constructed with: two dice or more, die i of
\* n having the faces i, n + 1 - i.
GameDice == {[i \in 1..n |-> <<i, n + 1 - i>>] : n \in 2..MaxDice}

\* game = DiceGame(dice_list); game.play()
InitGame ==
    /\ argv = << >>
    /\ pc = "first_move"
    /\ dice_list \in GameDice
    /\ NoGame

NextGame ==
    \/ FairCommit
    \/ \E answer \in ProtocolAnswers : FairReveal(answer)
    \/ \E answer \in ProtocolAnswers : FairAbort(answer)
    \/ FairReturn
    \/ \E choice \in MenuChoices : UserExit(choice)
    \/ \E choice \in MenuChoices : UserHelp(choice)
    \/ \E choice \in MenuChoices : UserRejected(choice)
    \/ \E choice \in MenuChoices : UserSelect(choice)
    \/ get_computer_choice
    \/ Compare

SpecGame == InitGame /\ [][NextGame]_vars

\* --------------------------------------------------------------- progress

\* The statements of the program that wait for nobody.
ProgramStep == FairCommit \/ FairReturn \/ get_computer_choice \/ Compare

\* The human answers the prompt of a fair-random round.
HumanAnswers ==
    \E answer \in ProtocolAnswers : FairReveal(answer) \/ FairAbort(answer)

\* The human ends the selection menu: an unclaimed index or the exit option.
HumanDecides ==
    \E choice \in MenuChoices : UserSelect(choice) \/ UserExit(choice)

\* The program runs on while it can, each input() is answered, and at the
\* menu the human eventually makes an entry that ends it.
SpecLive ==
    /\ SpecGame
    /\ WF_vars(ProgramStep)
    /\ WF_vars(HumanAnswers)
    /\ WF_vars(HumanDecides)

\* ------------------------------------------------------------------ claims

Kinds(t) == [i \in DOMAIN t |-> t[i].kind]

Abs(n) == IF n < 0 THEN 0 - n ELSE n

\* The current round has read an integer and stands at its return statement.
RoundComplete == frs = "return"

\* The current round ended the process on text that is no integer.
Aborted == \E i \in DOMAIN transcript : transcript[i].kind = "invalid"

\* C1: every fair-random round prints the commitment (digest and range), then
\* the request for the counterpart's number, then the reveal (number and key),
\* then the result, in this order; the number and the key appear in no line
\* before the counterpart's number has been read.
C1_DisclosureOrder ==
    /\ frs = "idle" => transcript = << >>
    /\ frs = "input" /\ pc # "exit" => Kinds(transcript) = <<"commit", "request">>
    /\ frs = "input" /\ pc = "exit" =>
          Kinds(transcript) = <<"commit", "request", "invalid">>
    /\ RoundComplete =>
          /\ Kinds(transcript) = <<"commit", "request", "reveal", "result">>
          /\ transcript[3].number = Val(random_number)
          /\ transcript[3].key = Val(key)
          /\ transcript[4].result = Val(result)
    /\ transcript # << >> =>
          /\ transcript[1].max_value = Val(max_value)
          /\ transcript[1].hmac = Val(hmac_value)
          /\ transcript[2].modulus = Val(max_value) + 1
    /\ \A i \in DOMAIN transcript :
          transcript[i].kind \in {"reveal", "result"} =>
             i > 2 /\ user_number # None

C1_Witness ==
    /\ RoundComplete
    /\ Kinds(transcript) = <<"commit", "request", "reveal", "result">>
    /\ Val(max_value) = 2

\* Values a verifier may try in place of the revealed one, for range maximum m.
AltValues(m) == (0 - (m + 2))..(12 * (m + 1))

\* C2: in every completed round the digest printed in the commitment line is
\* the keyed hash of the revealed key and the decimal string of the revealed
\* number, and with the same key every other number gives another digest.
C2_CommitmentSoundness ==
    RoundComplete =>
        LET digest == transcript[1].hmac
            v == transcript[3].number
            k == transcript[3].key
        IN  /\ v = Val(random_number)
            /\ k = Val(key)
            /\ calculate_hmac(k, PyStr(v)) = digest
            /\ \A w \in AltValues(Val(max_value)) \ {v} :
                  calculate_hmac(k, PyStr(w)) # digest

C2_Witness ==
    /\ RoundComplete
    /\ transcript[3].number = 2
    /\ transcript[3].key = 1
    /\ pc = "user_throw"

\* C3: for the range maximum and the counterpart's number of every completed
\* round, committed value -> (number + value) mod (max + 1) maps 0..max onto
\* 0..max one to one: every result has exactly one committed value.
C3_Bijection ==
    RoundComplete =>
        LET m == Val(max_value)
            u == Val(user_number)
        IN  /\ \A v \in 0..m : Combine(u, v, m) \in 0..m
            /\ \A r \in 0..m :
                  Cardinality({v \in 0..m : Combine(u, v, m) = r}) = 1

C3_Witness ==
    /\ RoundComplete
    /\ Val(max_value) = 2
    /\ Val(user_number) < 0

\* C4: at the return of every completed round the result lies in 0..max and
\* differs from number + value by a multiple of max + 1, whatever integer the
\* counterpart gave (negative, zero or above max).
C4_Result ==
    RoundComplete =>
        LET m == Val(max_value)
            u == Val(user_number)
            v == Val(random_number)
            r == Val(result)
            span == Abs(u) + m + 1
        IN  /\ v \in 0..m
            /\ r \in 0..m
            /\ \E q \in (0 - span)..span : u + v = q * (m + 1) + r

C4_Witness ==
    /\ RoundComplete
    /\ Val(user_number) > Val(max_value)
    /\ Val(user_number) + Val(random_number) # Val(result)
    /\ Val(max_value) = 2

\* C5: text that is no integer, given in any fair-random round, ends the
\* process at once with status 1: the round has no result, the number and the
\* key are not revealed, and nothing happens afterwards (no die is claimed,
\* no selection, throw or comparison).
C5_AbortOnNonInteger ==
    /\ InProtocolStage /\ frs = "input" =>
          \A answer \in ProtocolAnswers :
             ~answer.ok => ENABLED FairAbort(answer) /\ ~ENABLED FairReveal(answer)
    /\ Aborted =>
          /\ pc = "exit"
          /\ exit_code = Some(1)
          /\ Kinds(transcript) = <<"commit", "request", "invalid">>
          /\ user_number = None
          /\ result = None
          /\ user_throw = None /\ user_value = None /\ outcome = None
          /\ first_move = None =>
                used_dice = {} /\ user_dice = None /\ computer_dice = None
          /\ ~ENABLED Next

C5_Witness ==
    /\ Aborted
    /\ exit_code = Some(1)
    /\ first_move # None
    /\ computer_throw = None

\* The dice the two parties hold.
Claimed == {Val(d) : d \in {user_dice, computer_dice} \ {None}}

C6_Exclusive ==
    /\ used_dice \subseteq 0..(Len(dice_list) - 1)
    /\ used_dice = Claimed
    /\ user_dice # None /\ computer_dice # None => Val(user_dice) # Val(computer_dice)

C6_Step ==
    /\ used_dice \subseteq used_dice'
    /\ user_dice' # user_dice =>
          /\ user_dice' # None
          /\ Val(user_dice') \notin used_dice
          /\ used_dice' = used_dice \cup {Val(user_dice')}
    /\ computer_dice' # computer_dice =>
          /\ computer_dice' # None
          /\ Val(computer_dice') \notin used_dice
          /\ used_dice' = used_dice \cup {Val(computer_dice')}
    /\ used_dice' # used_dice =>
          user_dice' # user_dice \/ computer_dice' # computer_dice

\* C6: used_dice only grows, every claim adds an index that was not in it, all
\* its members are positions of dice_list, and the human's die and the
\* computer's die are never the same, in either turn order.
C6_SelectionExclusivity == []C6_Exclusive /\ [][C6_Step]_vars

C6_Witness ==
    /\ first_move = Some(1)
    /\ computer_dice = Some(0)
    /\ user_dice = Some(2)
    /\ used_dice = {0, 2}

C7_Order ==
    /\ pc = "first_move" /\ frs # "idle" => Val(max_value) = 1
    /\ first_move = None => user_dice = None /\ computer_dice = None
    /\ first_move # None => Val(first_move) \in {0, 1}
    /\ first_move = Some(0) /\ computer_dice # None => user_dice # None
    /\ first_move = Some(1) /\ user_dice # None => computer_dice # None
    /\ pc \in {"computer_throw", "user_throw", "compare"} =>
          user_dice # None /\ computer_dice # None /\ Cardinality(used_dice) = 2

C7_Step ==
    /\ user_dice # None => user_dice' = user_dice
    /\ computer_dice # None => computer_dice' = computer_dice

\* C7: the first-move round has max = 1; after result 0 the human claims a die
\* before the computer, after result 1 the computer claims one before the
\* human; each party claims one die and keeps it.
C7_FirstMove == []C7_Order /\ [][C7_Step]_vars

C7_Witness ==
    /\ first_move = Some(1)
    /\ computer_dice # None
    /\ user_dice = None
    /\ pc = "select_second"

C8_Cases ==
    computer_dice # None =>
        Val(computer_dice) =
            IF first_move = Some(0) /\ user_dice = Some(0) THEN 1 ELSE 0

C8_Step ==
    computer_dice' # computer_dice =>
        /\ computer_dice' # None
        /\ Val(computer_dice') \in (0..(Len(dice_list) - 1)) \ used_dice
        /\ \A j \in 0..(Val(computer_dice') - 1) : j \in used_dice

\* C8: the computer claims the lowest index not yet claimed: 0 when it moves
\* first, and when it moves second 0 unless the human holds 0, then 1; the
\* faces play no part.
C8_LowestUnclaimed == []C8_Cases /\ [][C8_Step]_vars

C8_Witness ==
    /\ first_move = Some(0)
    /\ user_dice = Some(0)
    /\ computer_dice = Some(1)

\* The entry is an index of dice_list that is not claimed.
ValidIndex(choice) ==
    choice.int.ok /\ choice.int.val \in (0..(Len(dice_list) - 1)) \ used_dice

AtMenu == InSelection /\ UserTurn

\* The step get_user_choice takes on the entry.
MenuStep(choice) ==
    UserExit(choice) \/ UserHelp(choice) \/ UserRejected(choice) \/ UserSelect(choice)

\* The index entered is added and the die returned.
Claims(choice) ==
    /\ used_dice' = used_dice \cup {choice.int.val}
    /\ user_dice' = Some(choice.int.val)
    /\ pc' = AfterSelection
    /\ reprompts' = reprompts

\* Nothing is claimed and the menu is shown again.
Reprompts ==
    /\ used_dice' = used_dice
    /\ user_dice' = user_dice
    /\ pc' = pc
    /\ reprompts' = reprompts + 1

\* Nothing is claimed and the process ends with status 0.
Leaves ==
    /\ used_dice' = used_dice
    /\ user_dice' = user_dice
    /\ pc' = "exit"
    /\ exit_code' = Some(0)

\* C9 as stated: at the selection menu every entry that is no unclaimed index
\* of dice_list leaves used_dice as it is and the menu is shown again; an
\* unclaimed index adds that index.
C9_AsStated ==
    [][AtMenu =>
         \A choice \in MenuChoices :
            MenuStep(choice) =>
               IF ValidIndex(choice) THEN Claims(choice) ELSE Reprompts]_vars

\* C9, amended: at the selection menu every entry other than the exit token
\* that is no unclaimed index of dice_list (claimed, negative, too large, not
\* a number, the help token) leaves used_dice as it is and the menu is shown
\* again; the exit token leaves used_dice as it is and ends the process; only
\* an unclaimed index changes used_dice, adding that index.
C9_MenuFrame ==
    [][AtMenu =>
         \A choice \in MenuChoices :
            MenuStep(choice) =>
               IF ValidIndex(choice) THEN Claims(choice)
               ELSE IF choice.exit THEN Leaves
               ELSE Reprompts]_vars

C9_Witness ==
    /\ AtMenu
    /\ reprompts = 2
    /\ probabilities # None
    /\ used_dice = {0}
    /\ user_dice = None

\* The faces of the die with the given index.
Faces(d) == dice_list[Val(d) + 1]

\* C10: each throw round is run with max = (face count of the thrower's own
\* die) - 1, its result is an index of that die's faces, and the throw value
\* is the face of that die at that index.
C10_Throw ==
    /\ pc = "computer_throw" /\ frs # "idle" =>
          Val(max_value) = Len(Faces(computer_dice)) - 1
    /\ pc = "user_throw" /\ frs # "idle" =>
          Val(max_value) = Len(Faces(user_dice)) - 1
    /\ RoundComplete /\ pc \in {"computer_throw", "user_throw"} =>
          Val(result) \in 0..(Len(Faces(StageDice)) - 1)
    /\ computer_throw # None =>
          /\ Val(computer_throw) \in 0..(Len(Faces(computer_dice)) - 1)
          /\ Val(computer_value) = Faces(computer_dice)[Val(computer_throw) + 1]
    /\ user_throw # None =>
          /\ Val(user_throw) \in 0..(Len(Faces(user_dice)) - 1)
          /\ Val(user_value) = Faces(user_dice)[Val(user_throw) + 1]

C10_Witness ==
    /\ user_throw = Some(2)
    /\ computer_throw = Some(0)
    /\ Val(user_value) = Faces(user_dice)[3]
    /\ Val(user_value) # Faces(computer_dice)[3]


\* C11: the announced outcome depends on the two throw values alone: "You
\* win!" exactly when the human's value is greater, "I win!" exactly when it
\* is smaller, "It's a tie!" exactly when they are equal; one of the three is
\* announced once both throws are made and the comparison has run.
C11_Compare ==
    /\ outcome # None =>
          /\ user_value # None /\ computer_value # None
          /\ Val(outcome) \in {"You win!", "I win!", "It's a tie!"}
          /\ Val(outcome) = "You win!" <=> Val(user_value) > Val(computer_value)
          /\ Val(outcome) = "I win!" <=> Val(user_value) < Val(computer_value)
          /\ Val(outcome) = "It's a tie!" <=> Val(user_value) = Val(computer_value)
    /\ pc = "exit" /\ user_value # None => outcome # None
    /\ pc # "exit" => outcome = None

C11_Witness ==
    /\ outcome = Some("It's a tie!")
    /\ Val(user_value) = Val(computer_value)
    /\ user_dice # computer_dice


\* The stage of the game a position of play() belongs to.
Stage(p) ==
    CASE p = "main" -> "Start"
      [] p = "first_move" -> "DetermineFirstMove"
      [] p \in {"select_first", "select_second"} -> "SelectDice"
      [] p \in {"computer_throw", "user_throw"} -> "Throw"
      [] p = "compare" -> "Compare"
      [] p = "exit" -> "Done"

\* The position that follows p when play() runs on.
Following(p) ==
    CASE p = "main" -> "first_move"
      [] p = "first_move" -> "select_first"
      [] p = "select_first" -> "select_second"
      [] p = "select_second" -> "computer_throw"
      [] p = "computer_throw" -> "user_throw"
      [] p = "user_throw" -> "compare"
      [] p = "compare" -> "exit"
      [] p = "exit" -> "exit"

\* A fair-random round starts / returns its result in this step.
RoundStarts == frs = "idle" /\ frs' = "input"

RoundReturns == frs = "return" /\ frs' = "idle"

\* The game ran to its end.
Completed == outcome # None

C12_Stages ==
    /\ pc \in {"computer_throw", "user_throw", "compare"} =>
          user_dice # None /\ computer_dice # None /\ Cardinality(used_dice) = 2
    /\ pc \in {"select_first", "select_second", "computer_throw", "user_throw",
               "compare"} => first_move # None
    /\ pc \in {"main", "first_move"} =>
          first_move = None /\ used_dice = {} /\ computer_throw = None
    /\ Stage(pc) = "SelectDice" => computer_throw = None /\ user_throw = None
    /\ pc = "select_first" => used_dice = {}
    /\ pc = "select_second" => Cardinality(used_dice) = 1
    /\ pc = "computer_throw" => computer_throw = None /\ user_throw = None
    /\ pc = "user_throw" => computer_throw # None /\ user_throw = None
    /\ pc = "compare" => computer_throw # None /\ user_throw # None
    /\ frs # "idle" /\ pc # "exit" => InProtocolStage
    /\ Completed =>
          /\ pc = "exit" /\ exit_code = Some(0)
          /\ first_move # None
          /\ user_dice # None /\ computer_dice # None
          /\ Cardinality(used_dice) = 2
          /\ computer_throw # None /\ user_throw # None

C12_Step ==
    /\ pc' \in {pc, Following(pc), "exit"}
    /\ pc' = "exit" /\ pc = "compare" => outcome' # None /\ exit_code' = Some(0)
    /\ RoundStarts => pc' = pc /\ InProtocolStage
    /\ RoundReturns => pc' = Following(pc)
    /\ pc' = Following(pc) /\ InProtocolStage => RoundReturns
    /\ first_move' # first_move => pc = "first_move" /\ first_move = None
    /\ computer_throw' # computer_throw =>
          pc = "computer_throw" /\ computer_throw = None
    /\ user_throw' # user_throw => pc = "user_throw" /\ user_throw = None
    /\ user_dice' # user_dice => Stage(pc) = "SelectDice" /\ user_dice = None
    /\ computer_dice' # computer_dice =>
          Stage(pc) = "SelectDice" /\ computer_dice = None
    /\ outcome' # outcome => pc = "compare" /\ outcome = None

\* C12: play() passes through DetermineFirstMove, SelectDice, Throw, Compare and
\* Done in this order, no position taken twice or left out: a stage with a
\* fair-random round starts one round and is left when that round returns (one
\* first-move round, one throw round per party), each party claims one die in
\* SelectDice, the comparison runs once, and no throw round starts before both
\* parties hold a die.
C12_StageOrder == []C12_Stages /\ [][C12_Step]_vars

C12_Witness ==
    /\ Completed
    /\ pc = "exit"
    /\ first_move = Some(1)
    /\ Cardinality(used_dice) = 2


\* The set of the faces of a die.
FaceSet(faces) == {faces[k] : k \in 1..Len(faces)}

\* C13: for every die with at least one face and every integer argument,
\* negative, in range or at or above the face count, roll returns the face at
\* the position r in 0..faceCount-1 with argument = q * faceCount + r, and that
\* face is one of the die's faces.
C13_RollTotality ==
    pc = "rolled" =>
        LET faces == dice_list[1]
            n == Len(faces)
            value == Val(computer_throw)
        IN  /\ n >= 1
            /\ computer_value # None
            /\ Val(computer_value) \in FaceSet(faces)
            /\ \E r \in 0..(n - 1) :
                  /\ \E q \in (0 - MaxIndex)..MaxIndex : value = q * n + r
                  /\ Val(computer_value) = faces[r + 1]

C13_Witness ==
    /\ pc = "rolled"
    /\ dice_list = << <<1, 1, 2>> >>
    /\ computer_throw = Some(0 - 1)
    /\ computer_value = Some(2)


\* The face pairs (faces1[a], faces2[b]) from position (a, b) on, in the order
\* of the Cartesian product, that stand in the relation rel: "gt" or "eq".
RECURSIVE PairsFrom(_, _, _, _, _)
PairsFrom(rel, faces1, faces2, a, b) ==
    IF a > Len(faces1) THEN 0
    ELSE IF b > Len(faces2) THEN PairsFrom(rel, faces1, faces2, a + 1, 1)
    ELSE (IF \/ rel = "gt" /\ faces1[a] > faces2[b]
             \/ rel = "eq" /\ faces1[a] = faces2[b]
          THEN 1 ELSE 0) + PairsFrom(rel, faces1, faces2, a, b + 1)

Pairs(rel, faces1, faces2) == PairsFrom(rel, faces1, faces2, 1, 1)

\* The dice A, B, C of the non-transitive example.
ExampleDice ==
    << <<2, 2, 4, 4, 9, 9>>, <<1, 1, 6, 6, 8, 8>>, <<3, 3, 5, 5, 7, 7>> >>

\* The table m is the one of the dice list dl.
TableOf(m, dl) ==
    LET size == Len(dl)
    IN  /\ DOMAIN m = 1..size
        /\ \A i \in 1..size :
              /\ DOMAIN m[i] = 1..size
              /\ m[i][i][1] = 0 /\ m[i][i][2] > 0
              /\ \A j \in (1..size) \ {i} :
                    /\ m[i][j][1] = Pairs("gt", dl[i], dl[j])
                    /\ m[i][j][2] = Len(dl[i]) * Len(dl[j])
                    /\ m[i][j][1] + m[j][i][1] + Pairs("eq", dl[i], dl[j])
                       = m[i][j][2]
        /\ dl = ExampleDice =>
              /\ m[1][2] = <<20, 36>> /\ m[2][3] = <<20, 36>>
              /\ m[3][1] = <<20, 36>>
              /\ \A e \in {m[1][2], m[2][3], m[3][1]} : e[1] * 9 = 5 * e[2]

\* C14: the table computed for the help option is square of size |dice_list|;
\* its entry [i][j], i # j, is the number of face pairs of dice i and j with
\* the first face greater, over faceCount_i * faceCount_j, so that a tie is a
\* win in neither [i][j] nor [j][i]; its diagonal is 0; for the example dice
\* A over B, B over C and C over A are each 20 of 36, which is 5/9.
C14_Probabilities ==
    [][probabilities' # probabilities =>
          /\ probabilities' # None
          /\ dice_list' = dice_list
          /\ TableOf(Val(probabilities'), dice_list)]_vars

C14_Witness ==
    /\ probabilities # None
    /\ dice_list = ExampleDice
    /\ Val(probabilities)[1][2] = <<20, 36>>
    /\ Val(probabilities)[2][1] = <<16, 36>>


\* The text s is an integer literal: blanks, an optional sign, one or more
\* digits, blanks.
IntegerText(s) ==
    LET inked == {k \in DOMAIN s : s[k] # " "}
    IN  /\ inked # {}
        /\ LET lo == CHOOSE k \in inked : \A l \in inked : k <= l
               hi == CHOOSE k \in inked : \A l \in inked : k >= l
               start == IF s[lo] \in {"-", "+"} THEN lo + 1 ELSE lo
           IN  /\ start <= hi
               /\ \A k \in start..hi :
                     s[k] \in {"0", "1", "2", "3", "4", "5", "6", "7", "8", "9"}

\* The pieces of a command-line argument between its commas.
Pieces(arg) ==
    LET cuts == {0, Len(arg) + 1} \cup {k \in DOMAIN arg : arg[k] = ","}
    IN  {SubSeq(arg, c + 1, d - 1) :
            <<c, d>> \in {p \in cuts \X cuts :
                            /\ p[1] < p[2]
                            /\ \A e \in cuts : ~(p[1] < e /\ e < p[2])}}

\* The number of faces a command-line argument lists.
ListedFaces(arg) == Cardinality({k \in DOMAIN arg : arg[k] = ","}) + 1

\* A command line the program has to reject.
BadConfiguration(args) ==
    \/ Len(args) < 3
    \/ \E i \in DOMAIN args : \E piece \in Pieces(args[i]) : ~IntegerText(piece)
    \/ \E i, j \in DOMAIN args : ListedFaces(args[i]) # ListedFaces(args[j])

\* Nothing of the game has run: no die list, no round, no die claimed.
NoGameLogic ==
    /\ dice_list = << >> /\ used_dice = {}
    /\ frs = "idle" /\ transcript = << >> /\ key = None /\ hmac_value = None
    /\ first_move = None /\ user_dice = None /\ computer_dice = None
    /\ computer_throw = None /\ user_throw = None /\ outcome = None
    /\ reprompts = 0 /\ probabilities = None

C15_Shape ==
    /\ pc = "main" => NoGameLogic /\ exit_code = None
    /\ pc # "main" /\ dice_list = << >> =>
          pc = "exit" /\ exit_code = Some(1) /\ NoGameLogic
    /\ dice_list # << >> =>
          /\ Len(dice_list) >= 3
          /\ \A i \in DOMAIN dice_list :
                /\ Len(dice_list[i]) >= 1
                /\ \A j \in DOMAIN dice_list : Len(dice_list[i]) = Len(dice_list[j])
                /\ \A k \in DOMAIN dice_list[i] : dice_list[i][k] \in Int

C15_Step ==
    /\ argv' = argv
    /\ IF pc = "main"
       THEN /\ BadConfiguration(argv) <=> dice_list' = << >>
            /\ dice_list' # << >> =>
                  /\ Len(dice_list') = Len(argv)
                  /\ \A i \in DOMAIN argv :
                        Len(dice_list'[i]) = ListedFaces(argv[i])
       ELSE dice_list' = dice_list

\* C15: a command line with fewer than three dice, with a face that is no
\* integer (an empty face list reads as one), or with dice of differing face
\* counts gives no dice list and ends the program with status 1 before
\* anything of the game has run; and every dice list the game is played on
\* comes from a command line that is none of these, has at least three dice,
\* all of the same face count >= 1, as many faces as the argument lists.
C15_ConfigurationRejected == []C15_Shape /\ [][C15_Step]_vars

C15_Witness ==
    /\ pc = "exit"
    /\ exit_code = Some(1)
    /\ Len(argv) = 3
    /\ ListedFaces(argv[1]) # ListedFaces(argv[2])
    /\ \A i \in DOMAIN argv : \A piece \in Pieces(argv[i]) : IntegerText(piece)
    /\ NoGameLogic


\* The determinism of a game under a fixed random source and fixed entries
\* (C16) relates two behaviours and is no property of one behaviour.

\* The human enters the exit token at the menu.
EntersExit == \E choice \in MenuChoices : choice.exit /\ MenuStep(choice)

\* The process ended with success and without a comparison: it was left at
\* the selection menu.
LeftAtMenu == pc = "exit" /\ exit_code = Some(0) /\ outcome = None

C17_Left ==
    /\ AtMenu => ENABLED EntersExit
    /\ LeftAtMenu =>
          /\ user_dice = None
          /\ computer_throw = None /\ computer_value = None
          /\ user_throw = None /\ user_value = None
          /\ frs = "idle" /\ transcript = << >>
          /\ user_first # None
          /\ IF Val(user_first)
             THEN computer_dice = None /\ used_dice = {}
             ELSE computer_dice # None /\ used_dice = {Val(computer_dice)}

C17_Step ==
    /\ AtMenu /\ EntersExit =>
          /\ pc' = "exit" /\ exit_code' = Some(0)
          /\ UNCHANGED <<gameVars, roundVars>>
    /\ pc # "exit"

\* C17: at the selection menu the exit token can always be entered, in the
\* first selection as in the one after the computer's claim; it ends the
\* process at once with status 0 and changes nothing else, so the human holds
\* no die, and as no step follows the end of the process, no throw round and no
\* comparison come after it.
C17_ExitAtMenu == []C17_Left /\ [][C17_Step]_vars

C17_Witness ==
    /\ LeftAtMenu
    /\ computer_dice = Some(0)
    /\ user_dice = None
    /\ used_dice = {0}
    /\ reprompts = 1


\* The computer's call of get_computer_choice has returned.
ComputerChose ==
    \/ pc = "select_second" /\ ~Val(user_first)
    \/ pc \in {"computer_throw", "user_throw", "compare"}

\* C18: in a game on two dice or more the computer's selection, first or
\* second, finds an unclaimed die, so that it holds a die whenever its
\* selection has returned; when the throws begin both parties hold a die, the
\* two dice differ and they are the two claimed indices; the process never
\* ends for a throw without a die.
C18_ComputerFindsDie ==
    /\ Len(dice_list) >= 2
    /\ InSelection /\ ~UserTurn =>
          /\ \E i \in 0..(Len(dice_list) - 1) : i \notin used_dice
          /\ computer_dice = None
    /\ ComputerChose =>
          /\ computer_dice # None
          /\ Val(computer_dice) \in used_dice
          /\ Val(computer_dice) \in 0..(Len(dice_list) - 1)
    /\ pc \in {"computer_throw", "user_throw", "compare"} =>
          /\ user_dice # None /\ computer_dice # None
          /\ Val(user_dice) # Val(computer_dice)
          /\ used_dice = {Val(user_dice), Val(computer_dice)}
          /\ Cardinality(used_dice) = 2
    /\ exit_code = Some(1) => Aborted

C18_Witness ==
    /\ Len(dice_list) = 2
    /\ pc = "computer_throw"
    /\ user_first = Some(TRUE)
    /\ user_dice = Some(0)
    /\ computer_dice = Some(1)


\* How far the program has come: the position of play(), and within a stage
\* with a fair-random round the position of that round.
Position(p, f) ==
    3 * (CASE p = "main" -> 0
           [] p = "first_move" -> 1
           [] p = "select_first" -> 2
           [] p = "select_second" -> 3
           [] p = "computer_throw" -> 4
           [] p = "user_throw" -> 5
           [] p = "compare" -> 6
           [] p = "exit" -> 7)
    + (CASE f = "idle" -> 0 [] f = "input" -> 1 [] f = "return" -> 2)

\* Every step takes the program forward, but for the menu shown again; the one
\* step a round takes at its prompt ends the round, with a result or with the
\* end of the process; the menu is shown again only at the menu.
C19_Step ==
    /\ \/ Position(pc', frs') > Position(pc, frs)
       \/ AtMenu /\ pc' = pc /\ frs' = frs /\ reprompts' = reprompts + 1
    /\ frs = "input" =>
          \/ frs' = "return" /\ pc' = pc /\ user_number' # None /\ result' # None
          \/ pc' = "exit" /\ exit_code' = Some(1)
    /\ reprompts' # reprompts => AtMenu

\* The game on a dice list ended as planned: after the comparison or by the
\* exit option.
Done == pc = "exit" /\ exit_code = Some(0)

\* C19: when every prompt is answered and the human eventually enters an
\* unclaimed index or the exit token at the menu, the process ends, and a game
\* in which every answer at a fair-random prompt was an integer ends in Done;
\* every round ends with the one line it reads, in a result or in the end of
\* the process; only at the selection menu is a prompt repeated.
C19_Termination ==
    /\ [][C19_Step]_vars
    /\ <>(pc = "exit")
    /\ [](pc = "exit" /\ dice_list # << >> /\ ~Aborted => Done)

C19_Witness ==
    /\ Done
    /\ outcome # None
    /\ reprompts = 2
    /\ probabilities # None
    /\ first_move = Some(0)


\* The process ended in the computer's throw round, at int(user_input).
AbortedInComputerThrow ==
    /\ pc = "exit" /\ Aborted
    /\ user_dice # None /\ computer_dice # None
    /\ computer_throw = None

C20_Order ==
    /\ pc = "user_throw" \/ user_throw # None \/ user_value # None =>
          /\ computer_throw # None /\ computer_value # None
          /\ computer_value = Some(Faces(computer_dice)[Val(computer_throw) + 1])
    /\ pc = "computer_throw" => user_throw = None /\ user_value = None
    /\ AbortedInComputerThrow =>
          /\ exit_code = Some(1)
          /\ user_throw = None /\ user_value = None /\ outcome = None
          /\ Kinds(transcript) = <<"commit", "request", "invalid">>
          /\ Val(max_value) = Len(Faces(computer_dice)) - 1

C20_Step ==
    /\ RoundStarts /\ Stage(pc) = "Throw" =>
          IF computer_throw = None
          THEN pc = "computer_throw" /\ Val(max_value') = Len(Faces(computer_dice)) - 1
          ELSE pc = "user_throw" /\ Val(max_value') = Len(Faces(user_dice)) - 1
    /\ pc = "computer_throw" /\ pc' # pc =>
          \/ pc' = "user_throw" /\ RoundReturns /\ computer_throw' # None
          \/ pc' = "exit" /\ Aborted' /\ computer_throw' = None
    /\ ~AbortedInComputerThrow

\* C20: whoever won the first move, the first throw round is the computer's,
\* and the human's throw round starts only when the computer's has returned
\* and its die is rolled; a process that ended in the computer's throw round
\* takes no further step, so the human's throw round never starts.
C20_ThrowOrder == []C20_Order /\ [][C20_Step]_vars

C20_Witness ==
    /\ AbortedInComputerThrow
    /\ user_first = Some(TRUE)
    /\ user_throw = None
    /\ exit_code = Some(1)

====
